---- MODULE Spec2Model ----
(***************************************************************************)
(* Model of ivadomed/metrics.py: the metric functions numeric_score,       *)
(* dice_score, mse and accuracy_score, and the MetricManager aggregator    *)
(* (__init__, __call__, get_results, reset).                               *)
(*                                                                         *)
(* Numbers.  A Python/numpy float is modelled by an exact rational         *)
(* <<n, d>> in lowest terms with d > 0; <<0, 0>> is NaN and <<1, 0>> is    *)
(* +inf (numpy's results for 0/0 and x/0).  Rounding is not modelled.      *)
(*                                                                         *)
(* Arrays.  A numpy array is [shape, data]: shape is the tuple of axis     *)
(* sizes and data the elements, floats, in row-major order.                *)
(***************************************************************************)
EXTENDS Integers, Sequences, FiniteSets, TLC

\* Bounds of the model: the axes and the elements of an array handed to a metric
\* function, the metric functions an aggregator is built with, and the samples an
\* aggregator is fed (in one call, and in all calls between two resets).
MaxRank == 3
MaxSize == 2
MaxFns == 2
MaxSamples == 2

VARIABLES
    metric_fns,   \* MetricManager.metric_fns: the registered function names
    num_samples,  \* MetricManager.num_samples
    result_dict,  \* MetricManager.result_dict: [factory, items]
    op,           \* the operation that ran last
    exc,          \* the exception it raised, or "none"
    at,           \* where the loops of the last __call__ stopped: <<function, pair>>
    ret,          \* what it returned
    fresh,        \* the aggregator built anew at the last reset (or at construction)
    freshExc,     \* the outcome of the same operation on fresh
    freshRet,
    total,        \* pairs handed to __call__ since construction or the last reset
    equalLens,    \* every such call had len(prediction) = len(ground_truth)
    fnFailed,     \* a metric function has raised since construction
    wasReset,     \* reset() has run
    im1, im2,     \* the arguments of a metric function called on its own
    fn,           \* the metric function called last on its own
    out           \* its outcome: [exc, val]

mgrVars == <<metric_fns, num_samples, result_dict, op, exc, at, ret, fresh,
             freshExc, freshRet, total, equalLens, fnFailed, wasReset>>
fnVars == <<im1, im2, fn, out>>
vars == <<mgrVars, fnVars>>

----
\* Floats as exact rationals.

RECURSIVE GCD(_, _)
GCD(a, b) == IF b = 0 THEN a ELSE GCD(b, a % b)

NaN == <<0, 0>>
Inf == <<1, 0>>
Abs(n) == IF n < 0 THEN -n ELSE n
Norm(n, d) == LET g == GCD(Abs(n), d) IN <<n \div g, d \div g>>
FInt(n) == <<n, 1>>
IsNaN(x) == x = NaN

\* x / k for a float x >= 0 and a float k >= 0, as numpy divides float64:
\* 0/0 is NaN and x/0 is inf, with a warning and no exception.
FDiv(x, k) ==
    IF IsNaN(x) \/ IsNaN(k) THEN NaN
    ELSE IF x = Inf THEN (IF k = Inf THEN NaN ELSE Inf)
    ELSE IF k = Inf THEN FInt(0)
    ELSE IF k[1] = 0 THEN (IF x[1] = 0 THEN NaN ELSE Inf)
    ELSE Norm(x[1] * k[2], x[2] * k[1])

FAdd(x, y) ==
    IF IsNaN(x) \/ IsNaN(y) THEN NaN
    ELSE IF x = Inf \/ y = Inf THEN Inf
    ELSE Norm(x[1] * y[2] + y[1] * x[2], x[2] * y[2])

FSub(x, y) ==
    IF IsNaN(x) \/ IsNaN(y) THEN NaN
    ELSE IF x = Inf THEN (IF y = Inf THEN NaN ELSE Inf)
    ELSE Norm(x[1] * y[2] - y[1] * x[2], x[2] * y[2])

FMul(x, y) ==
    IF IsNaN(x) \/ IsNaN(y) THEN NaN
    ELSE IF x = Inf \/ y = Inf
    THEN (IF x = FInt(0) \/ y = FInt(0) THEN NaN ELSE Inf)
    ELSE Norm(x[1] * y[1], x[2] * y[2])

RECURSIVE FSum(_)
FSum(s) == IF s = <<>> THEN FInt(0) ELSE FAdd(Head(s), FSum(Tail(s)))

\* The outcome of a call: the exception raised ("none" if it returned) and the value.
Return(v) == [exc |-> "none", val |-> v]
Raise(e) == [exc |-> e, val |-> NaN]

----
\* Arrays.

RECURSIVE Prod(_)
Prod(s) == IF s = <<>> THEN 1 ELSE Head(s) * Prod(Tail(s))

RECURSIVE Sum(_)
Sum(s) == IF s = <<>> THEN 0 ELSE Head(s) + Sum(Tail(s))

Min(a, b) == IF a < b THEN a ELSE b
Max(a, b) == IF a < b THEN b ELSE a

Shapes ==
    {s \in UNION {[1..r -> 0..MaxSize] : r \in 0..MaxRank} : Prod(s) <= MaxSize}

\* The element values drawn: 0.0, the soft value 0.5, and 1.0.
ElementValues == {FInt(0), Norm(1, 2), FInt(1)}

Arrays ==
    UNION {{[shape |-> s, data |-> d] : d \in [1..Prod(s) -> ElementValues]} :
            s \in Shapes}

Size(a) == Len(a.data)
IsBinary(a) == \A i \in 1..Size(a) : a.data[i] \in {FInt(0), FInt(1)}

----
\* numpy broadcasting of an elementwise operation on two arrays.

\* The size of the k-th axis from the end; a missing leading axis counts as 1.
AxisFromEnd(s, k) == IF k <= Len(s) THEN s[Len(s) - k + 1] ELSE 1

Broadcastable(s1, s2) ==
    \A k \in 1..Max(Len(s1), Len(s2)) :
        \/ AxisFromEnd(s1, k) = AxisFromEnd(s2, k)
        \/ AxisFromEnd(s1, k) = 1
        \/ AxisFromEnd(s2, k) = 1

BroadcastShape(s1, s2) ==
    LET r == Max(Len(s1), Len(s2))
    IN [i \in 1..r |->
            IF AxisFromEnd(s1, r - i + 1) = 1
            THEN AxisFromEnd(s2, r - i + 1)
            ELSE AxisFromEnd(s1, r - i + 1)]

\* The stride of axis i of a row-major array of shape s.
Stride(s, i) == Prod(SubSeq(s, i + 1, Len(s)))

\* The element of a that an elementwise operation reads for element n (0-based,
\* row-major) of its result of shape s: n is unravelled into the result's
\* multi-index, and an axis of a of size 1 is read at 0, whatever the index says.
At(a, s, n) ==
    LET t == a.shape
        off == Len(s) - Len(t)
        flat == Sum([i \in 1..Len(t) |->
                        (IF t[i] = 1 THEN 0
                         ELSE (n \div Stride(s, i + off)) % s[i + off])
                            * Stride(t, i)])
    IN a.data[flat + 1]

----
\* The metric functions.

\* numeric_score with FN counted where (prediction == 1), not (prediction == 0).
numeric_score_fn_slip(prediction, groundtruth) ==
    IF ~Broadcastable(prediction.shape, groundtruth.shape) THEN Raise("ValueError")
    ELSE LET s == BroadcastShape(prediction.shape, groundtruth.shape)
             count(pv, gv) ==
                 Cardinality({n \in 0..(Prod(s) - 1) :
                                 /\ At(prediction, s, n) = pv
                                 /\ At(groundtruth, s, n) = gv})
         IN Return(<<FInt(count(FInt(1), FInt(0))), FInt(count(FInt(1), FInt(1))),
                     FInt(count(FInt(1), FInt(1))), FInt(count(FInt(0), FInt(0)))>>)

\* FP, FN, TP, TN as floats: the number of elements where (prediction == 1) and
\* (groundtruth == 0), and so on; the comparisons and the & broadcast.  np.float
\* is the built-in float, as in the NumPy versions that still have the alias.
numeric_score(prediction, groundtruth) ==
    IF ~Broadcastable(prediction.shape, groundtruth.shape) THEN Raise("ValueError")
    ELSE LET s == BroadcastShape(prediction.shape, groundtruth.shape)
             count(pv, gv) ==
                 Cardinality({n \in 0..(Prod(s) - 1) :
                                 /\ At(prediction, s, n) = pv
                                 /\ At(groundtruth, s, n) = gv})
         IN Return(<<FInt(count(FInt(1), FInt(0))), FInt(count(FInt(0), FInt(1))),
                     FInt(count(FInt(1), FInt(1))), FInt(count(FInt(0), FInt(0)))>>)

\* dice_score without the factor 2.
dice_score_no_factor(a, b, empty_score) ==
    IF a.shape # b.shape THEN Raise("ValueError")
    ELSE LET im_sum == FAdd(FSum(a.data), FSum(b.data))
             intersection == FSum([i \in 1..Size(a) |-> FMul(a.data[i], b.data[i])])
         IN IF im_sum = FInt(0) THEN Return(empty_score)
            ELSE Return(FDiv(intersection, im_sum))

\* 2 * sum(im1 * im2) / (sum(im1) + sum(im2)), or empty_score when the sum is 0.
dice_score(a, b, empty_score) ==
    IF a.shape # b.shape THEN Raise("ValueError")
    ELSE LET im_sum == FAdd(FSum(a.data), FSum(b.data))
             intersection == FSum([i \in 1..Size(a) |-> FMul(a.data[i], b.data[i])])
         IN IF im_sum = FInt(0) THEN Return(empty_score)
            ELSE Return(FDiv(FMul(FInt(2), intersection), im_sum))

\* mse normalising by shape[1] * shape[2], one axis too far.
mse_axis_slip(a, b) ==
    IF a.shape # b.shape THEN Raise("ValueError")
    ELSE LET err == FSum([i \in 1..Size(a) |->
                            FMul(FSub(a.data[i], b.data[i]),
                                 FSub(a.data[i], b.data[i]))])
         IN IF Len(a.shape) < 3 THEN Raise("IndexError")
            ELSE Return(FDiv(err, FInt(a.shape[2] * a.shape[3])))

\* sum((im1 - im2) ** 2) / float(shape[0] * shape[1]); shape[0] or shape[1] of an
\* array with fewer than two axes raises IndexError, after the sum was taken.
mse(a, b) ==
    IF a.shape # b.shape THEN Raise("ValueError")
    ELSE LET err == FSum([i \in 1..Size(a) |->
                            FMul(FSub(a.data[i], b.data[i]),
                                 FSub(a.data[i], b.data[i]))])
         IN IF Len(a.shape) < 2 THEN Raise("IndexError")
            ELSE Return(FDiv(err, FInt(a.shape[1] * a.shape[2])))

\* (TP + TN) / (FP + FN + TP + TN), by np.divide.
accuracy_score(prediction, groundtruth) ==
    LET c == numeric_score(prediction, groundtruth)
    IN IF c.exc # "none" THEN Raise(c.exc)
       ELSE LET FP == c.val[1]
                FN == c.val[2]
                TP == c.val[3]
                TN == c.val[4]
                N == FAdd(FAdd(FP, FN), FAdd(TP, TN))
            IN Return(FDiv(FAdd(TP, TN), N))

----
\* MetricManager.

MetricNames == {"dice_score", "mse"}
MetricErrors == {"ValueError", "IndexError"}

\* The arrays the aggregator is fed: an all-zero mask, a mask and a one-axis array.
Zeros == [shape |-> <<1, 1>>, data |-> <<FInt(0)>>]
Ones == [shape |-> <<1, 1>>, data |-> <<FInt(1)>>]
Flat == [shape |-> <<1>>, data |-> <<FInt(1)>>]
SampleArrays == {Zeros, Ones, Flat}

\* The outcome of each registered function on each pair of sample arrays, computed
\* once; dice_score runs with its default empty_score, NaN.
MetricResults ==
    [f \in MetricNames |-> [p \in SampleArrays |-> [gt \in SampleArrays |->
        IF f = "dice_score" THEN dice_score(p, gt, NaN) ELSE mse(p, gt)]]]

\* metric_fn(p, gt) for the registered function named f.
CallMetric(f, p, gt) == MetricResults[f][p][gt]

\* collections.defaultdict: the factory and the items, a function on the keys.
\* An item is [t |-> "list", v |-> sequence of floats] or [t |-> "float", v |-> float].
NoItems == [k \in {} |-> NaN]
defaultdict(factory) == [factory |-> factory, items |-> NoItems]
DefaultValue(factory) ==
    IF factory = "list" THEN [t |-> "list", v |-> <<>>]
    ELSE [t |-> "float", v |-> FInt(0)]

\* d[key]: a missing key is inserted with the factory's value first.
GetItem(d, key) ==
    IF key \in DOMAIN d.items THEN d
    ELSE [d EXCEPT !.items = @ @@ (key :> DefaultValue(d.factory))]

\* Python's None, and a value that is not None.
None == [none |-> TRUE, val |-> NaN]
Some(v) == [none |-> FALSE, val |-> v]

__init__(fns) ==
    [metric_fns |-> fns, num_samples |-> 0, result_dict |-> defaultdict("list")]

\* The two for loops of __call__, from metric function i and pair j on.  zip stops
\* at the shorter argument.  The metric function is called before result_dict is
\* read; .append on an item that is no list raises AttributeError.  The outcome
\* names the object afterwards, the exception and the loop position it ended at.
RECURSIVE CallLoop(_, _, _, _, _)
CallLoop(self, prediction, ground_truth, i, j) ==
    IF i > Len(self.metric_fns) THEN [self |-> self, exc |-> "none", at |-> <<i, j>>]
    ELSE IF j > Min(Len(prediction), Len(ground_truth))
    THEN CallLoop(self, prediction, ground_truth, i + 1, 1)
    ELSE LET res == CallMetric(self.metric_fns[i], prediction[j], ground_truth[j])
             dict_key == self.metric_fns[i]
             d == GetItem(self.result_dict, dict_key)
         IN IF res.exc # "none" THEN [self |-> self, exc |-> res.exc, at |-> <<i, j>>]
            ELSE IF d.items[dict_key].t # "list"
            THEN [self |-> [self EXCEPT !.result_dict = d],
                  exc |-> "AttributeError", at |-> <<i, j>>]
            ELSE CallLoop(
                    [self EXCEPT !.result_dict =
                        [d EXCEPT !.items[dict_key].v = Append(@, res.val)]],
                    prediction, ground_truth, i, j + 1)

\* __call__ counting the samples after the loops, so not when a loop raises.
call_counting_last(self, prediction, ground_truth) ==
    LET r == CallLoop(self, prediction, ground_truth, 1, 1)
    IN IF r.exc = "none"
       THEN [r EXCEPT !.self.num_samples = @ + Len(prediction)]
       ELSE r

\* __call__ counting one per call, not one per sample.
call_counting_batches(self, prediction, ground_truth) ==
    CallLoop([self EXCEPT !.num_samples = @ + 1], prediction, ground_truth, 1, 1)

\* __call__ restoring result_dict when a metric function raises.
call_rolling_back(self, prediction, ground_truth) ==
    LET r == CallLoop([self EXCEPT !.num_samples = @ + Len(prediction)],
                      prediction, ground_truth, 1, 1)
    IN IF r.exc \in MetricErrors
       THEN [r EXCEPT !.self.result_dict = self.result_dict]
       ELSE r

__call__(self, prediction, ground_truth) ==
    CallLoop([self EXCEPT !.num_samples = @ + Len(prediction)],
             prediction, ground_truth, 1, 1)

\* np.all(np.isnan(val)) for a list (true of the empty list) or a float.
AllNaN(item) ==
    IF item.t = "list" THEN \A i \in 1..Len(item.v) : IsNaN(item.v[i])
    ELSE IsNaN(item.v)

\* np.nanmean(val): the mean of the entries that are not NaN (NaN if there is none).
nanmean(item) ==
    LET s == IF item.t = "list" THEN item.v ELSE <<item.v>>
        defined == SelectSeq(s, LAMBDA x : ~IsNaN(x))
    IN FDiv(FSum(defined), FInt(Len(defined)))

\* get_results reading result_dict[name] for every registered function, which
\* inserts the missing keys.
RECURSIVE Touch(_, _)
Touch(d, keys) ==
    IF keys = <<>> THEN d ELSE Touch(GetItem(d, Head(keys)), Tail(keys))

get_results_touching(self) ==
    LET d == Touch(self.result_dict, self.metric_fns)
    IN [self |-> [self EXCEPT !.result_dict = d],
        ret |-> Some([key \in DOMAIN d.items |->
                        IF AllNaN(d.items[key]) THEN None
                        ELSE Some(nanmean(d.items[key]))])]

\* get_results: the object afterwards and the mapping returned.
get_results(self) ==
    [self |-> self,
     ret |-> Some([key \in DOMAIN self.result_dict.items |->
                    IF AllNaN(self.result_dict.items[key]) THEN None
                    ELSE Some(nanmean(self.result_dict.items[key]))])]

reset(self) ==
    [self EXCEPT !.num_samples = 0, !.result_dict = defaultdict("float")]

----
\* The aggregator as a state machine: one action per method.

Self == [metric_fns |-> metric_fns, num_samples |-> num_samples,
         result_dict |-> result_dict]

\* The lists of metric functions an aggregator is built with (a function may be
\* registered twice), and the batches handed to it.
FnLists == UNION {[1..n -> MetricNames] : n \in 0..MaxFns}

Batches == UNION {[1..n -> SampleArrays] : n \in 0..MaxSamples}

NoCall == Return(NaN)

Init ==
    /\ metric_fns \in FnLists
    /\ num_samples = __init__(metric_fns).num_samples
    /\ result_dict = __init__(metric_fns).result_dict
    /\ op = "__init__"
    /\ exc = "none"
    /\ at = <<0, 0>>
    /\ ret = None
    /\ fresh = __init__(metric_fns)
    /\ freshExc = "none"
    /\ freshRet = None
    /\ total = 0
    /\ equalLens = TRUE
    /\ fnFailed = FALSE
    /\ wasReset = FALSE
    /\ im1 = Zeros
    /\ im2 = Zeros
    /\ fn = "none"
    /\ out = NoCall

\* m(prediction, ground_truth).  The two guards keep the sample count, which the
\* code never bounds, and the arguments within MaxSamples.
Call(prediction, ground_truth) ==
    /\ num_samples + Len(prediction) <= MaxSamples
    /\ num_samples + Len(ground_truth) <= MaxSamples
    /\ LET r == __call__(Self, prediction, ground_truth)
           f == __call__(fresh, prediction, ground_truth)
       IN /\ metric_fns' = r.self.metric_fns
          /\ num_samples' = r.self.num_samples
          /\ result_dict' = r.self.result_dict
          /\ exc' = r.exc
          /\ at' = r.at
          /\ fresh' = f.self
          /\ freshExc' = f.exc
          /\ fnFailed' = (fnFailed \/ r.exc \in MetricErrors)
    /\ op' = "__call__"
    /\ ret' = None
    /\ freshRet' = None
    /\ total' = total + Min(Len(prediction), Len(ground_truth))
    /\ equalLens' = (equalLens /\ Len(prediction) = Len(ground_truth))
    /\ UNCHANGED <<wasReset, fnVars>>

GetResults ==
    /\ LET r == get_results(Self)
           f == get_results(fresh)
       IN /\ metric_fns' = r.self.metric_fns
          /\ num_samples' = r.self.num_samples
          /\ result_dict' = r.self.result_dict
          /\ ret' = r.ret
          /\ fresh' = f.self
          /\ freshRet' = f.ret
    /\ op' = "get_results"
    /\ exc' = "none"
    /\ at' = <<0, 0>>
    /\ freshExc' = "none"
    /\ UNCHANGED <<total, equalLens, fnFailed, wasReset, fnVars>>

Reset ==
    /\ LET r == reset(Self)
       IN /\ metric_fns' = r.metric_fns
          /\ num_samples' = r.num_samples
          /\ result_dict' = r.result_dict
    /\ fresh' = __init__(metric_fns)
    /\ op' = "reset"
    /\ exc' = "none"
    /\ at' = <<0, 0>>
    /\ ret' = None
    /\ freshExc' = "none"
    /\ freshRet' = None
    /\ total' = 0
    /\ equalLens' = TRUE
    /\ wasReset' = TRUE
    /\ UNCHANGED <<fnFailed, fnVars>>

Next ==
    \/ \E prediction \in Batches, ground_truth \in Batches :
            Call(prediction, ground_truth)
    \/ GetResults
    \/ Reset

Spec == Init /\ [][Next]_vars

----
\* The metric functions on their own: the arguments are drawn at the start and
\* one function is called on them.

InitFn ==
    /\ im1 \in Arrays
    /\ im2 \in Arrays
    /\ fn = "none"
    /\ out = NoCall
    /\ metric_fns = <<>>
    /\ num_samples = 0
    /\ result_dict = defaultdict("list")
    /\ op = "__init__"
    /\ exc = "none"
    /\ at = <<0, 0>>
    /\ ret = None
    /\ fresh = __init__(<<>>)
    /\ freshExc = "none"
    /\ freshRet = None
    /\ total = 0
    /\ equalLens = TRUE
    /\ fnFailed = FALSE
    /\ wasReset = FALSE

NumericScore ==
    /\ fn = "none"
    /\ fn' = "numeric_score"
    /\ out' = numeric_score(im1, im2)
    /\ UNCHANGED <<im1, im2, mgrVars>>

DiceScore ==
    /\ fn = "none"
    /\ \E empty_score \in {NaN, FInt(1)} :
            out' = dice_score(im1, im2, empty_score)
    /\ fn' = "dice_score"
    /\ UNCHANGED <<im1, im2, mgrVars>>

Mse ==
    /\ fn = "none"
    /\ fn' = "mse"
    /\ out' = mse(im1, im2)
    /\ UNCHANGED <<im1, im2, mgrVars>>

AccuracyScore ==
    /\ fn = "none"
    /\ fn' = "accuracy_score"
    /\ out' = accuracy_score(im1, im2)
    /\ UNCHANGED <<im1, im2, mgrVars>>

NextFn == NumericScore \/ DiceScore \/ Mse \/ AccuracyScore

SpecFn == InitFn /\ [][NextFn]_vars

----
\* Properties.

\* The series held under key k: the list, or nothing when the key is absent or
\* holds a bare float.
SeriesOf(d, k) ==
    IF k \in DOMAIN d.items /\ d.items[k].t = "list" THEN d.items[k].v ELSE <<>>

IsPrefix(s, t) == Len(s) <= Len(t) /\ SubSeq(t, 1, Len(s)) = s

UniqueNames(fns) == \A i, j \in 1..Len(fns) : fns[i] = fns[j] => i = j

\* How many results for key k the loops appended before stopping at <<i, j>>, in
\* a call with the given number of pairs: all pairs for the functions before i,
\* the pairs before j for function i.
Appended(fns, k, i, j, pairs) ==
    Sum([x \in 1..Len(fns) |->
            IF fns[x] # k THEN 0
            ELSE IF x < i THEN pairs
            ELSE IF x = i THEN j - 1
            ELSE 0])

\* C1: after reset() the aggregator behaves as one built anew with the same metric
\* functions: every later call has the same outcome, sample count, series and
\* summary as on the new instance.
C1_ResetIsFresh ==
    wasReset =>
        /\ exc = freshExc
        /\ ret = freshRet
        /\ num_samples = fresh.num_samples
        /\ result_dict.items = fresh.result_dict.items

\* C2: get_results does not fail and reports, for every key, None exactly when the
\* metric has no defined (non-NaN) result, and otherwise the mean of its defined
\* results; it never reports a number for a metric without a defined result.
C2_SummaryIsMeanOfDefined ==
    op = "get_results" =>
        /\ exc = "none"
        /\ ~ret.none
        /\ DOMAIN ret.val = DOMAIN result_dict.items
        /\ \A k \in DOMAIN result_dict.items :
              LET defined == SelectSeq(SeriesOf(result_dict, k), LAMBDA x : ~IsNaN(x))
              IN ret.val[k] =
                    IF defined = <<>> THEN None
                    ELSE Some(FDiv(FSum(defined), FInt(Len(defined))))

\* C3: when every call since construction or the last reset had arguments of equal
\* length, num_samples is the number of sample pairs handed over since then.
C3_CountIsPairs == equalLens => num_samples = total

C3_Witness ==
    /\ op = "__call__"
    /\ equalLens
    /\ wasReset
    /\ exc \in MetricErrors
    /\ total = MaxSamples
    /\ num_samples = total

\* C4: a metric function's exception leaves __call__ at once and nothing is rolled
\* back: each series keeps what it held and gains exactly the results appended
\* before the failing call, none after it, and the samples stay counted.
C4_NoRollback ==
    [][(op' = "__call__" /\ exc' \in MetricErrors) =>
          /\ at'[1] \in 1..Len(metric_fns)
          /\ at'[2] \in 1..(total' - total)
          /\ num_samples' >= num_samples + (total' - total)
          /\ \A k \in MetricNames :
                /\ IsPrefix(SeriesOf(result_dict, k), SeriesOf(result_dict', k))
                /\ Len(SeriesOf(result_dict', k)) =
                      Len(SeriesOf(result_dict, k))
                        + Appended(metric_fns, k, at'[1], at'[2], total' - total)]_vars

\* A failure at the second pair of the second function: the first function's
\* series got both results, the second's one, so the lengths differ.
C4_Witness ==
    /\ op = "__call__"
    /\ exc \in MetricErrors
    /\ at = <<2, 2>>
    /\ UniqueNames(metric_fns)
    /\ Len(metric_fns) = 2
    /\ Len(SeriesOf(result_dict, metric_fns[1])) = 2
    /\ Len(SeriesOf(result_dict, metric_fns[2])) = 1

\* C5: get_results changes nothing: the sample count, the keys and every series
\* are as before, and a second call in a row returns the same mapping.
C5_SummaryReadOnly ==
    [][op' = "get_results" =>
          /\ num_samples' = num_samples
          /\ metric_fns' = metric_fns
          /\ DOMAIN result_dict'.items = DOMAIN result_dict.items
          /\ result_dict' = result_dict
          /\ (op = "get_results" => ret' = ret)]_vars

\* A summary of an aggregator in which one registered function has a series with
\* a defined mean and the other has no key yet: the summary did not create it.
C5_Witness ==
    /\ op = "get_results"
    /\ UniqueNames(metric_fns)
    /\ Len(metric_fns) = 2
    /\ DOMAIN result_dict.items = {metric_fns[1]}
    /\ DOMAIN ret.val = {metric_fns[1]}
    /\ ~ret.val[metric_fns[1]].none

\* C6 as stated: dice_score(A, A) = 1.0 for every non-empty A with a nonzero
\* element, soft masks included.
C6_DiceSelfAny ==
    (/\ fn = "dice_score"
     /\ im1 = im2
     /\ \E i \in 1..Size(im1) : im1.data[i] # FInt(0))
        => out = Return(FInt(1))

\* C6 amended: dice_score(A, A) = 1.0 for every binary (0/1) A with a nonzero
\* element.
C6_DiceSelfBinary ==
    (/\ fn = "dice_score"
     /\ im1 = im2
     /\ IsBinary(im1)
     /\ \E i \in 1..Size(im1) : im1.data[i] # FInt(0))
        => out = Return(FInt(1))

C6_Witness ==
    /\ fn = "dice_score"
    /\ im1 = im2
    /\ IsBinary(im1)
    /\ Size(im1) = MaxSize
    /\ \E i \in 1..Size(im1) : im1.data[i] # FInt(0)
    /\ \E i \in 1..Size(im1) : im1.data[i] = FInt(0)
    /\ out = Return(FInt(1))

\* C7: for binary arrays of equal shape, numeric_score returns four counts that
\* are not negative and add up to the number of elements.
C7_CountsPartition ==
    (/\ fn = "numeric_score"
     /\ im1.shape = im2.shape
     /\ IsBinary(im1)
     /\ IsBinary(im2))
        => /\ out.exc = "none"
           /\ \A c \in 1..4 : out.val[c][1] >= 0 /\ out.val[c][2] = 1
           /\ FSum(out.val) = FInt(Size(im1))

C7_Witness ==
    /\ fn = "numeric_score"
    /\ im1.shape = im2.shape
    /\ IsBinary(im1)
    /\ IsBinary(im2)
    /\ Size(im1) = MaxSize
    /\ out.exc = "none"
    /\ out.val[2] = FInt(1)
    /\ out.val[3] = FInt(1)

\* C8 as stated: mse(A, A) = 0 for every array A.
C8_MseSelfAny ==
    (fn = "mse" /\ im1 = im2) => out = Return(FInt(0))

\* C8 amended: mse(A, A) = 0 for every array A with at least two axes whose first
\* two axes are not empty.
C8_MseSelfTwoAxes ==
    (/\ fn = "mse"
     /\ im1 = im2
     /\ Len(im1.shape) >= 2
     /\ im1.shape[1] * im1.shape[2] # 0)
        => out = Return(FInt(0))

C8_Witness ==
    /\ fn = "mse"
    /\ im1 = im2
    /\ Len(im1.shape) = MaxRank
    /\ Size(im1) = MaxSize
    /\ \E i \in 1..Size(im1) : im1.data[i] # FInt(0)
    /\ out = Return(FInt(0))

\* C9: between resets each series only grows at its end: a __call__ appends every
\* result a metric function returned, in order, to the series under the
\* function's name, and no call other than reset drops a key or changes what a
\* series already holds.
C9_AppendOnly ==
    [][/\ op' = "__call__" =>
            \A k \in MetricNames :
                LET returned ==
                        Appended(metric_fns, k, at'[1], at'[2], total' - total)
                          + (IF exc' = "AttributeError" /\ metric_fns[at'[1]] = k
                             THEN 1 ELSE 0)
                IN Len(SeriesOf(result_dict', k)) =
                        Len(SeriesOf(result_dict, k)) + returned
       /\ op' # "reset" =>
            \A k \in DOMAIN result_dict.items :
                /\ k \in DOMAIN result_dict'.items
                /\ IsPrefix(SeriesOf(result_dict, k), SeriesOf(result_dict', k))]_vars

\* C10: on an aggregator built with uniquely named functions and then only called
\* (and summarised), as long as no metric function raised and every call had
\* arguments of equal length, every series is as long as num_samples, so all
\* series are equally long.
C10_SeriesLengthIsCount ==
    (/\ ~wasReset
     /\ ~fnFailed
     /\ equalLens
     /\ UniqueNames(metric_fns))
        => \A k \in DOMAIN result_dict.items :
              /\ result_dict.items[k].t = "list"
              /\ Len(result_dict.items[k].v) = num_samples

C10_Witness ==
    /\ ~wasReset
    /\ ~fnFailed
    /\ equalLens
    /\ UniqueNames(metric_fns)
    /\ op = "__call__"
    /\ num_samples = MaxSamples
    /\ DOMAIN result_dict.items = MetricNames

====
